---- MODULE Spec2Model ----
(***************************************************************************)
(* The audio-merge pipeline of multi-voice-sdk: merge({inputFiles,         *)
(* outputFile}) validates its arguments, checks every input with           *)
(* fs.access, builds one fluent-ffmpeg command (inputs, concat + loudnorm  *)
(* filter graph, output options, output), registers the start / progress / *)
(* end / error handlers, runs the command and settles its promise from the *)
(* end or error handler.                                                   *)
(*                                                                         *)
(* JavaScript values are records [t, s, a]: t is the type tag, s the text  *)
(* of a string or number, a the elements of an array.  Error messages and  *)
(* engine texts are sequences of tokens, so that a template literal        *)
(* `prefix ${x}` is the concatenation of the prefix token and x's tokens.  *)
(***************************************************************************)
EXTENDS Integers, Sequences, FiniteSets

(***************************************************************************)
(* Bounds of the model.                                                    *)
(***************************************************************************)
\* longest inputFiles array drawn for a call
MaxInputs == 2
\* most progress events the engine delivers in one run
MaxProgress == 2

\* identities of merge calls; a specification's Init says which are made
CallIds == {1, 2}

\* the paths of the file system the calls can name
Paths == {"a.mp3", "b.mp3", "c.mp3"}
\* what a path refers to
FileKinds == {"absent", "file", "dir"}

(***************************************************************************)
(* JavaScript values.                                                      *)
(***************************************************************************)
Undefined == [t |-> "undefined", s |-> "", a |-> <<>>]
Str(x) == [t |-> "string", s |-> x, a |-> <<>>]
Num(x) == [t |-> "number", s |-> x, a |-> <<>>]
Arr(xs) == [t |-> "array", s |-> "", a |-> xs]

\* mutant of Falsy: tests for undefined instead of falsiness
FalsyUndefinedOnly(v) == v.t = "undefined"

\* !v
Falsy(v) ==
    CASE v.t = "undefined" -> TRUE
      [] v.t = "string" -> v.s = ""
      [] v.t = "number" -> v.s = "0"
      [] OTHER -> FALSE

\* Array.isArray(v)
IsArray(v) == v.t = "array"

\* `${v}` for a scalar v
TemplateText(v) == IF v.t = "undefined" THEN "undefined" ELSE v.s

\* the elements an inputFiles array is drawn from: two paths and a number
ElementValues == {Str("a.mp3"), Str("b.mp3"), Num("42")}
\* the arrays of at most MaxInputs elements
ArrayValues ==
    {Arr(xs) : xs \in UNION {[1..n -> ElementValues] : n \in 0..MaxInputs}}
\* the inputFiles arguments: absent, a string instead of an array, arrays
InputFilesValues == {Undefined, Str("a.mp3")} \cup ArrayValues
\* the outputFile arguments: absent, empty, a path, a number
OutputFileValues == {Undefined, Str(""), Str("c.mp3"), Num("42")}

VARIABLES
    callers,      \* the merge calls this specification makes
    fs,           \* the file system: what each path refers to
    pc,           \* where each call's async function body is
    inputFiles,   \* each call's inputFiles argument
    outputFile,   \* each call's outputFile argument
    idx,          \* position of the for-of loop over inputFiles (1-based)
    checked,      \* the values handed to fs.access, in order
    command,      \* the fluent-ffmpeg command the call built
    runCount,     \* how many times the call invoked command.run()
    eng,          \* the engine (subprocess) state of the call's command
    engErr,       \* err.message of the engine's error event
    written,      \* the engine wrote the call's output file
    nprog,        \* progress events the engine delivered
    events,       \* the events the call's handlers observed, in order
    console,      \* what the call logged, in order
    promise,      \* state of the promise merge returned
    error,        \* message of the Error the promise rejected with
    ttsCall,      \* the tts call: arguments, position, provider reply, outcome
    sttCall,      \* the stt call: arguments, position, provider reply, outcome
    llmCall       \* the llm / llmChat call: the same

\* the state of merge and of its environment
mergeVars == <<callers, fs, pc, inputFiles, outputFile, idx, checked, command,
               runCount, eng, engErr, written, nprog, events, console, promise,
               error>>
\* the state of the calls of the other functions of the SDK
sdkVars == <<ttsCall, sttCall, llmCall>>

vars == <<mergeVars, sdkVars>>

(***************************************************************************)
(* The other functions of the SDK before they are called.  A provider      *)
(* name is a sequence of characters (so that toLowerCase can act on it),   *)
(* given or not.                                                           *)
(***************************************************************************)
NoProvider == [given |-> FALSE, name |-> <<>>]
Provider(w) == [given |-> TRUE, name |-> w]
\* the reply of a provider that was not asked yet
NoReply == [status |-> "none", text |-> Undefined, confidence |-> Undefined,
            words |-> Undefined, msg |-> <<>>]
\* no result object
NoResult == [transcript |-> "", confidence |-> "", words |-> <<>>,
             fullResult |-> NoReply, metadata |-> [provider |-> <<>>]]
\* the value of a promise that did not resolve (yet)
NoValue == [kind |-> "none", s |-> "", o |-> NoResult]

TtsIdle ==
    [pc |-> "idle", provider |-> NoProvider, apiKey |-> Undefined,
     text |-> Undefined, voice |-> Undefined, outputFile |-> "output.mp3",
     branch |-> <<>>, requests |-> 0, audio |-> "none", file |-> "none",
     console |-> <<>>, promise |-> "none", error |-> <<>>]

SttIdle ==
    [pc |-> "idle", provider |-> NoProvider, apiKey |-> Undefined,
     audioFile |-> Undefined, outputFile |-> Undefined,
     fullResponse |-> "undefined", branch |-> <<>>, requests |-> 0,
     reply |-> NoReply, file |-> "none", console |-> <<>>,
     promise |-> "none", value |-> NoValue, error |-> <<>>]

LlmIdle ==
    [pc |-> "idle", fn |-> "none", provider |-> "undefined",
     apiKey |-> Undefined, input |-> Undefined, stream |-> "undefined",
     requests |-> 0, reply |-> NoReply, console |-> <<>>,
     promise |-> "none", value |-> NoValue, error |-> <<>>]

SdkIdle == ttsCall = TtsIdle /\ sttCall = SttIdle /\ llmCall = LlmIdle

(***************************************************************************)
(* Error messages of merge (token sequences).                              *)
(***************************************************************************)
InputFilesMsg == <<"inputFiles must be a non-empty array of file paths.">>
OutputFileMsg == <<"outputFile parameter is required.">>
NotFoundPrefix == "Input file not found:"
FailedPrefix == "Failed to merge audio files:"

\* `Input file not found: ${file}`
NotFoundMsg(file) == <<NotFoundPrefix, TemplateText(file)>>
\* mutant of FailedMsg: a fixed message, the engine's text dropped
FailedMsgGeneric(msg) == <<FailedPrefix>>

\* `Failed to merge audio files: ${err.message}`
FailedMsg(msg) == <<FailedPrefix>> \o msg

(***************************************************************************)
(* Argument validation and the file check.                                 *)
(***************************************************************************)
\* !inputFiles || !Array.isArray(inputFiles) || inputFiles.length === 0
InvalidInputFiles(v) == Falsy(v) \/ ~IsArray(v) \/ Len(v.a) = 0

\* mutant of Access: the check never fails (its result is not awaited)
AccessNeverFails(fsys, file) == TRUE

\* fs.access(file) fulfils: default mode F_OK, the path is visible.  A value
\* that is not a path is refused with a TypeError, which the catch also takes.
Access(fsys, file) ==
    /\ file.t = "string"
    /\ file.s \in DOMAIN fsys
    /\ fsys[file.s] # "absent"

(***************************************************************************)
(* The job: ffmpeg() and the builder calls made on it.                     *)
(***************************************************************************)
\* ffmpeg(): a command with nothing bound yet
NewCommand == [inputs |-> <<>>, filters |-> <<>>, options |-> <<>>,
               output |-> Undefined]

\* mutant of Input: a path already bound is not bound again
InputOnce(cmd, file) ==
    IF \E i \in 1..Len(cmd.inputs) : cmd.inputs[i] = file
      THEN cmd
      ELSE [cmd EXCEPT !.inputs = Append(@, file)]

\* command.input(file)
Input(cmd, file) == [cmd EXCEPT !.inputs = Append(@, file)]

\* inputFiles.forEach((file) => { command = command.input(file); })
RECURSIVE BindInputs(_, _)
BindInputs(cmd, files) ==
    IF files = <<>> THEN cmd
    ELSE BindInputs(Input(cmd, Head(files)), Tail(files))

\* mutant of ComplexFilter: the concat node always takes two inputs
ComplexFilterOfTwo(cmd, n) ==
    [cmd EXCEPT !.filters =
        << [filter |-> "concat", options |-> [n |-> 2, v |-> 0, a |-> 1],
            inputs |-> "", outputs |-> "concat_out"],
           [filter |-> "loudnorm", options |-> <<>>,
            inputs |-> "concat_out", outputs |-> "out"] >>]

\* .complexFilter([{concat n v a -> concat_out}, {loudnorm concat_out -> out}])
ComplexFilter(cmd, n) ==
    [cmd EXCEPT !.filters =
        << [filter |-> "concat", options |-> [n |-> n, v |-> 0, a |-> 1],
            inputs |-> "", outputs |-> "concat_out"],
           [filter |-> "loudnorm", options |-> <<>>,
            inputs |-> "concat_out", outputs |-> "out"] >>]

\* .outputOptions([...])
OutputOptions(cmd) ==
    [cmd EXCEPT !.options = <<"-map", "[out]", "-c:a", "libmp3lame",
                              "-b:a", "320k", "-ar", "48000", "-q:a", "0">>]

\* .output(target) takes a path; for a target that is neither a string nor a
\* writable stream the builder throws inside the promise executor
TargetAccepted(target) == target.t = "string"
TargetRefusedMsg(target) ==
    <<"Cannot use 'in' operator to search for 'writable' in",
      TemplateText(target)>>
Output(cmd, target) ==
    IF TargetAccepted(target) THEN [cmd EXCEPT !.output = target] ELSE cmd

\* the whole builder chain of the executor, up to .output(outputFile)
BuildCommand(inF, outF) ==
    Output(OutputOptions(ComplexFilter(BindInputs(NewCommand, inF.a),
                                       Len(inF.a))), outF)

(***************************************************************************)
(* The promise merge returns.                                              *)
(***************************************************************************)
\* resolve(): settles a pending promise, does nothing to a settled one
Resolve(c) ==
    /\ promise' = [promise EXCEPT ![c] = IF @ = "pending" THEN "resolved" ELSE @]
    /\ UNCHANGED error

\* reject(new Error(msg)): settles a pending promise, nothing otherwise
Reject(c, msg) ==
    /\ promise' = [promise EXCEPT ![c] = IF @ = "pending" THEN "rejected" ELSE @]
    /\ error' = [error EXCEPT ![c] = IF promise[c] = "pending" THEN msg ELSE @]

\* throw new Error(msg) in the async function body: the body ends and the
\* promise the async function returned is rejected with the error
Throw(c, msg) ==
    /\ pc' = [pc EXCEPT ![c] = "threw"]
    /\ promise' = [promise EXCEPT ![c] = "rejected"]
    /\ error' = [error EXCEPT ![c] = msg]

(***************************************************************************)
(* Console output: entries [tag, val].                                     *)
(***************************************************************************)
Log(tag, val) == [tag |-> tag, val |-> val]

\* the four console.log calls between the file check and the promise
Announce(inF, outF) ==
    << Log("merging", Len(inF.a)), Log("inputFiles", inF.a),
       Log("outputFile", TemplateText(outF)), Log("quality", "48kHz, 320kbps") >>

\* progress.percent as the engine reports it, in tenths of a percent;
\* has = FALSE is a progress object without percent
NoPercent == [has |-> FALSE, tenths |-> 0]
Pct(t) == [has |-> TRUE, tenths |-> t]
PercentValues == {NoPercent, Pct(0), Pct(605), Pct(294), Pct(1500)}

\* Math.round(x) = floor(x + 0.5), x given in tenths
Round(t) == (t + 5) \div 10

\* if (progress.percent): undefined and 0 are falsy
PercentTruthy(p) == p.has /\ p.tenths # 0

(***************************************************************************)
(* The external engine: the lifecycle of one fluent-ffmpeg run.  After     *)
(* run() the command is being prepared; it either cannot be located or     *)
(* started (an error event with no start), or starts, then reports         *)
(* progress and writes its output, and exits cleanly (end) or with an      *)
(* error (error).  Nothing is emitted after end or error.                  *)
(***************************************************************************)
EngStates == {"none", "preparing", "started", "exitedClean", "exitedError",
              "unavailable"}

\* the texts of the engine's error events, by cause
UnavailableTexts == {<<"Cannot", "find", "ffmpeg">>}
FailureTexts == {<<"ffmpeg", "exited", "with", "code", "1:", "Invalid", "data">>}

\* may the engine of call c emit event ev now
EngineEmits(c, ev) ==
    CASE ev = "start" -> eng[c] = "preparing"
      [] ev = "unavailable" -> eng[c] = "preparing"
      [] ev = "progress" -> eng[c] = "started" /\ nprog[c] < MaxProgress
      [] ev = "write" -> eng[c] = "started" /\ ~written[c]
      [] ev = "end" -> eng[c] = "started" /\ written[c]
      [] ev = "error" -> eng[c] = "started"
      [] OTHER -> FALSE

(***************************************************************************)
(* Initial state: no call made yet, any file system.                       *)
(***************************************************************************)
InitCall ==
    /\ fs \in [Paths -> FileKinds]
    /\ pc = [c \in CallIds |-> "idle"]
    /\ inputFiles = [c \in CallIds |-> Undefined]
    /\ outputFile = [c \in CallIds |-> Undefined]
    /\ idx = [c \in CallIds |-> 0]
    /\ checked = [c \in CallIds |-> <<>>]
    /\ command = [c \in CallIds |-> NewCommand]
    /\ runCount = [c \in CallIds |-> 0]
    /\ eng = [c \in CallIds |-> "none"]
    /\ engErr = [c \in CallIds |-> <<>>]
    /\ written = [c \in CallIds |-> FALSE]
    /\ nprog = [c \in CallIds |-> 0]
    /\ events = [c \in CallIds |-> <<>>]
    /\ console = [c \in CallIds |-> <<>>]
    /\ promise = [c \in CallIds |-> "none"]
    /\ error = [c \in CallIds |-> <<>>]

Init == callers = {1} /\ InitCall /\ SdkIdle

(***************************************************************************)
(* merge({inputFiles, outputFile}): the call, up to the first await.       *)
(***************************************************************************)
\* mutant of Merge: the file checks of all entries are issued at once
MergeChecksAll(c, inF, outF) ==
    /\ c \in callers
    /\ pc[c] = "idle"
    /\ inputFiles' = [inputFiles EXCEPT ![c] = inF]
    /\ outputFile' = [outputFile EXCEPT ![c] = outF]
    /\ IF InvalidInputFiles(inF)
         THEN Throw(c, InputFilesMsg) /\ UNCHANGED <<idx, checked>>
       ELSE IF Falsy(outF)
         THEN Throw(c, OutputFileMsg) /\ UNCHANGED <<idx, checked>>
       ELSE /\ pc' = [pc EXCEPT ![c] = "access"]
            /\ idx' = [idx EXCEPT ![c] = 1]
            /\ checked' = [checked EXCEPT ![c] = inF.a]
            /\ promise' = [promise EXCEPT ![c] = "pending"]
            /\ UNCHANGED error
    /\ UNCHANGED <<sdkVars, callers, fs, command, runCount, eng, engErr, written,
                   nprog, events, console>>

Merge(c, inF, outF) ==
    /\ c \in callers
    /\ pc[c] = "idle"
    /\ inputFiles' = [inputFiles EXCEPT ![c] = inF]
    /\ outputFile' = [outputFile EXCEPT ![c] = outF]
    /\ IF InvalidInputFiles(inF)
         THEN Throw(c, InputFilesMsg) /\ UNCHANGED <<idx, checked>>
       ELSE IF Falsy(outF)
         THEN Throw(c, OutputFileMsg) /\ UNCHANGED <<idx, checked>>
       ELSE /\ pc' = [pc EXCEPT ![c] = "access"]
            /\ idx' = [idx EXCEPT ![c] = 1]
            /\ checked' = [checked EXCEPT ![c] = <<inF.a[1]>>]
            /\ promise' = [promise EXCEPT ![c] = "pending"]
            /\ UNCHANGED error
    /\ UNCHANGED <<sdkVars, callers, fs, command, runCount, eng, engErr, written,
                   nprog, events, console>>

(***************************************************************************)
(* After the last file check: the logs, then the promise executor, which   *)
(* builds the command, registers the handlers and calls run().             *)
(***************************************************************************)
\* mutant of Submit: the command is one object kept at module level, which
\* every call builds on and runs
SubmitShared(c) ==
    /\ pc' = [pc EXCEPT ![c] = "submitted"]
    /\ console' = [console EXCEPT
                     ![c] = @ \o Announce(inputFiles[c], outputFile[c])]
    /\ command' = [d \in CallIds |->
                     BuildCommand(inputFiles[c], outputFile[c])]
    /\ IF TargetAccepted(outputFile[c])
         THEN /\ runCount' = [runCount EXCEPT ![c] = @ + 1]
              /\ eng' = [eng EXCEPT ![c] = "preparing"]
              /\ UNCHANGED <<promise, error>>
         ELSE /\ Reject(c, TargetRefusedMsg(outputFile[c]))
              /\ UNCHANGED <<runCount, eng>>

Submit(c) ==
    /\ pc' = [pc EXCEPT ![c] = "submitted"]
    /\ console' = [console EXCEPT
                     ![c] = @ \o Announce(inputFiles[c], outputFile[c])]
    /\ command' = [command EXCEPT
                     ![c] = BuildCommand(inputFiles[c], outputFile[c])]
    /\ IF TargetAccepted(outputFile[c])
         THEN /\ runCount' = [runCount EXCEPT ![c] = @ + 1]
              /\ eng' = [eng EXCEPT ![c] = "preparing"]
              /\ UNCHANGED <<promise, error>>
         ELSE /\ Reject(c, TargetRefusedMsg(outputFile[c]))
              /\ UNCHANGED <<runCount, eng>>

(***************************************************************************)
(* await fs.access(file) settles; the for-of loop goes on from there.      *)
(***************************************************************************)
AccessSettled(c) ==
    /\ pc[c] = "access"
    /\ LET file == inputFiles[c].a[idx[c]] IN
       IF ~Access(fs, file)
         THEN /\ Throw(c, NotFoundMsg(file))
              /\ UNCHANGED <<idx, checked, command, runCount, eng, console>>
       ELSE IF idx[c] < Len(inputFiles[c].a)
         THEN /\ idx' = [idx EXCEPT ![c] = @ + 1]
              /\ checked' = [checked EXCEPT
                               ![c] = Append(@, inputFiles[c].a[idx[c] + 1])]
              /\ UNCHANGED <<pc, command, runCount, eng, console, promise,
                             error>>
       ELSE /\ Submit(c)
            /\ UNCHANGED <<idx, checked>>
    /\ UNCHANGED <<sdkVars, callers, fs, inputFiles, outputFile, engErr, written,
                   nprog, events>>

(***************************************************************************)
(* The engine's events and the handlers merge registered for them.         *)
(***************************************************************************)
\* mutant of OnStart: the start handler already reports completion
OnStartResolves(c) ==
    /\ EngineEmits(c, "start")
    /\ eng' = [eng EXCEPT ![c] = "started"]
    /\ events' = [events EXCEPT ![c] = Append(@, "start")]
    /\ console' = [console EXCEPT
                     ![c] = Append(@, Log("completed", TemplateText(outputFile[c])))]
    /\ Resolve(c)
    /\ UNCHANGED <<sdkVars, callers, fs, pc, inputFiles, outputFile, idx, checked,
                   command, runCount, engErr, written, nprog>>

\* .on("start", ...)
OnStart(c) ==
    /\ EngineEmits(c, "start")
    /\ eng' = [eng EXCEPT ![c] = "started"]
    /\ events' = [events EXCEPT ![c] = Append(@, "start")]
    /\ console' = [console EXCEPT ![c] = Append(@, Log("started", ""))]
    /\ UNCHANGED <<sdkVars, callers, fs, pc, inputFiles, outputFile, idx, checked,
                   command, runCount, engErr, written, nprog, promise, error>>

\* .on("progress", (progress) => ...)
OnProgress(c, p) ==
    /\ EngineEmits(c, "progress")
    /\ nprog' = [nprog EXCEPT ![c] = @ + 1]
    /\ events' = [events EXCEPT ![c] = Append(@, "progress")]
    /\ console' = [console EXCEPT
                     ![c] = IF PercentTruthy(p)
                              THEN Append(@, Log("progress", Round(p.tenths)))
                              ELSE @]
    /\ UNCHANGED <<sdkVars, callers, fs, pc, inputFiles, outputFile, idx, checked,
                   command, runCount, eng, engErr, written, promise, error>>

\* the engine writes the output file of the command while it runs (it
\* cannot when the path is a directory, and then can only fail)
EngineWrite(c) ==
    /\ EngineEmits(c, "write")
    /\ fs[command[c].output.s] # "dir"
    /\ written' = [written EXCEPT ![c] = TRUE]
    /\ fs' = [fs EXCEPT ![command[c].output.s] = "file"]
    /\ UNCHANGED <<sdkVars, callers, pc, inputFiles, outputFile, idx, checked, command,
                   runCount, eng, engErr, nprog, events, console, promise,
                   error>>

\* mutant of OnEnd: the end handler logs and forgets resolve()
OnEndNoResolve(c) ==
    /\ EngineEmits(c, "end")
    /\ eng' = [eng EXCEPT ![c] = "exitedClean"]
    /\ events' = [events EXCEPT ![c] = Append(@, "end")]
    /\ console' = [console EXCEPT
                     ![c] = Append(@, Log("completed", TemplateText(outputFile[c])))]
    /\ UNCHANGED <<sdkVars, callers, fs, pc, inputFiles, outputFile, idx, checked,
                   command, runCount, engErr, written, nprog, promise, error>>

\* .on("end", ...)
OnEnd(c) ==
    /\ EngineEmits(c, "end")
    /\ eng' = [eng EXCEPT ![c] = "exitedClean"]
    /\ events' = [events EXCEPT ![c] = Append(@, "end")]
    /\ console' = [console EXCEPT
                     ![c] = @ \o << Log("completed", TemplateText(outputFile[c])),
                                    Log("professional", "48kHz, 320kbps") >>]
    /\ Resolve(c)
    /\ UNCHANGED <<sdkVars, callers, fs, pc, inputFiles, outputFile, idx, checked,
                   command, runCount, engErr, written, nprog>>

\* mutant of OnError: the error handler calls resolve() and logs completion
OnErrorResolves(c, st, msg) ==
    /\ eng' = [eng EXCEPT ![c] = st]
    /\ engErr' = [engErr EXCEPT ![c] = msg]
    /\ events' = [events EXCEPT ![c] = Append(@, "error")]
    /\ console' = [console EXCEPT
                     ![c] = Append(@, Log("completed", TemplateText(outputFile[c])))]
    /\ Resolve(c)
    /\ UNCHANGED <<sdkVars, callers, fs, pc, inputFiles, outputFile, idx, checked,
                   command, runCount, written, nprog>>

\* .on("error", (err) => ...), the engine having ended in state st with
\* err.message = msg
OnError(c, st, msg) ==
    /\ eng' = [eng EXCEPT ![c] = st]
    /\ engErr' = [engErr EXCEPT ![c] = msg]
    /\ events' = [events EXCEPT ![c] = Append(@, "error")]
    /\ console' = [console EXCEPT ![c] = Append(@, Log("ffmpegError", msg))]
    /\ Reject(c, FailedMsg(msg))
    /\ UNCHANGED <<sdkVars, callers, fs, pc, inputFiles, outputFile, idx, checked,
                   command, runCount, written, nprog>>

\* the executable cannot be located or started: an error event, no start
EngineUnavailable(c, msg) ==
    /\ EngineEmits(c, "unavailable")
    /\ OnError(c, "unavailable", msg)

\* mutant of EngineFailure: the error handler runs the command again
EngineFailureRetry(c, msg) ==
    /\ EngineEmits(c, "error")
    /\ eng' = [eng EXCEPT ![c] = "preparing"]
    /\ runCount' = [runCount EXCEPT ![c] = @ + 1]
    /\ engErr' = [engErr EXCEPT ![c] = msg]
    /\ events' = [events EXCEPT ![c] = Append(@, "error")]
    /\ console' = [console EXCEPT ![c] = Append(@, Log("ffmpegError", msg))]
    /\ Reject(c, FailedMsg(msg))
    /\ UNCHANGED <<sdkVars, callers, fs, pc, inputFiles, outputFile, idx, checked,
                   command, written, nprog>>

\* the engine ran and reported an error or exited abnormally
EngineFailure(c, msg) ==
    /\ EngineEmits(c, "error")
    /\ OnError(c, "exitedError", msg)

(***************************************************************************)
(* The file system changes under a call in flight (other processes); the   *)
(* destination of a call in flight is left to that call.                   *)
(***************************************************************************)
\* path p is the destination of a call in flight: written by that call alone
Destination(p) ==
    \E c \in callers : /\ promise[c] = "pending"
                       /\ outputFile[c].t = "string"
                       /\ outputFile[c].s = p

FsChange(p, k) ==
    /\ \E c \in callers : promise[c] = "pending"
    /\ ~Destination(p)
    /\ fs[p] # k
    /\ fs' = [fs EXCEPT ![p] = k]
    /\ UNCHANGED <<sdkVars, callers, pc, inputFiles, outputFile, idx, checked, command,
                   runCount, eng, engErr, written, nprog, events, console,
                   promise, error>>

Next ==
    \/ \E c \in CallIds, inF \in InputFilesValues, outF \in OutputFileValues :
          Merge(c, inF, outF)
    \/ \E c \in CallIds : AccessSettled(c)
    \/ \E c \in CallIds : OnStart(c)
    \/ \E c \in CallIds, p \in PercentValues : OnProgress(c, p)
    \/ \E c \in CallIds : EngineWrite(c)
    \/ \E c \in CallIds : OnEnd(c)
    \/ \E c \in CallIds, msg \in UnavailableTexts : EngineUnavailable(c, msg)
    \/ \E c \in CallIds, msg \in FailureTexts : EngineFailure(c, msg)
    \/ \E p \in Paths, k \in FileKinds : FsChange(p, k)

Spec == Init /\ [][Next]_vars

(***************************************************************************)
(* Scheduling: a file check that was issued returns, and an engine that    *)
(* was run eventually emits a terminal event (end or error).               *)
(***************************************************************************)
FairSpec ==
    /\ Init
    /\ [][Next]_vars
    /\ \A c \in CallIds :
          /\ WF_vars(AccessSettled(c))
          /\ WF_vars(\/ OnEnd(c)
                     \/ \E msg \in UnavailableTexts : EngineUnavailable(c, msg)
                     \/ \E msg \in FailureTexts : EngineFailure(c, msg))

(***************************************************************************)
(* Two merge calls in flight at once.  Call 1 writes c.mp3 and call 2      *)
(* writes b.mp3; the inputs of a call may include the path the other call  *)
(* writes.  Only a.mp3 may exist beforehand, and nothing but the two calls *)
(* touches the file system.                                                *)
(***************************************************************************)
ConcInputs(c) ==
    IF c = 1 THEN {Arr(<<Str("a.mp3")>>), Arr(<<Str("b.mp3")>>)}
             ELSE {Arr(<<Str("a.mp3")>>), Arr(<<Str("c.mp3")>>)}
ConcOutput(c) == IF c = 1 THEN Str("c.mp3") ELSE Str("b.mp3")
\* the progress values the engine delivers here
ConcPercents == {Pct(605)}

ConcInit ==
    /\ callers = CallIds
    /\ InitCall
    /\ fs["b.mp3"] = "absent" /\ fs["c.mp3"] = "absent"
    /\ SdkIdle

ConcNext ==
    \/ \E c \in CallIds :
          \E inF \in ConcInputs(c) : Merge(c, inF, ConcOutput(c))
    \/ \E c \in CallIds : AccessSettled(c)
    \/ \E c \in CallIds : OnStart(c)
    \/ \E c \in CallIds, p \in ConcPercents : OnProgress(c, p)
    \/ \E c \in CallIds : EngineWrite(c)
    \/ \E c \in CallIds : OnEnd(c)
    \/ \E c \in CallIds, msg \in UnavailableTexts : EngineUnavailable(c, msg)
    \/ \E c \in CallIds, msg \in FailureTexts : EngineFailure(c, msg)

ConcSpec == ConcInit /\ [][ConcNext]_vars

(***************************************************************************)
(* The simpler variant of merge (the README's): the same argument checks,  *)
(* file checks, start and error handlers; a concat-only filter graph, the  *)
(* -map option alone, three announcing logs, no progress handler and one   *)
(* log in the end handler.  To compare the variants, call 1 runs the       *)
(* canonical merge and call 2 the simpler one.                             *)
(***************************************************************************)
\* .complexFilter([{concat n v a -> out}])
SimpleComplexFilter(cmd, n) ==
    [cmd EXCEPT !.filters =
        << [filter |-> "concat", options |-> [n |-> n, v |-> 0, a |-> 1],
            inputs |-> "", outputs |-> "out"] >>]

\* .outputOptions(["-map", "[out]"])
SimpleOutputOptions(cmd) == [cmd EXCEPT !.options = <<"-map", "[out]">>]

SimpleBuildCommand(inF, outF) ==
    Output(SimpleOutputOptions(
               SimpleComplexFilter(BindInputs(NewCommand, inF.a), Len(inF.a))),
           outF)

\* the three console.log calls between the file check and the promise
SimpleAnnounce(inF, outF) ==
    << Log("merging", Len(inF.a)), Log("inputFiles", inF.a),
       Log("outputFile", TemplateText(outF)) >>

SimpleSubmit(c) ==
    /\ pc' = [pc EXCEPT ![c] = "submitted"]
    /\ console' = [console EXCEPT
                     ![c] = @ \o SimpleAnnounce(inputFiles[c], outputFile[c])]
    /\ command' = [command EXCEPT
                     ![c] = SimpleBuildCommand(inputFiles[c], outputFile[c])]
    /\ IF TargetAccepted(outputFile[c])
         THEN /\ runCount' = [runCount EXCEPT ![c] = @ + 1]
              /\ eng' = [eng EXCEPT ![c] = "preparing"]
              /\ UNCHANGED <<promise, error>>
         ELSE /\ Reject(c, TargetRefusedMsg(outputFile[c]))
              /\ UNCHANGED <<runCount, eng>>

\* mutant of SimpleAccessSettled: the simpler variant goes on to the engine
\* whatever the file check found
SimpleAccessIgnored(c) ==
    /\ pc[c] = "access"
    /\ IF idx[c] < Len(inputFiles[c].a)
         THEN /\ idx' = [idx EXCEPT ![c] = @ + 1]
              /\ checked' = [checked EXCEPT
                               ![c] = Append(@, inputFiles[c].a[idx[c] + 1])]
              /\ UNCHANGED <<pc, command, runCount, eng, console, promise,
                             error>>
         ELSE /\ SimpleSubmit(c)
              /\ UNCHANGED <<idx, checked>>
    /\ UNCHANGED <<sdkVars, callers, fs, inputFiles, outputFile, engErr,
                   written, nprog, events>>

\* await fs.access(file) settles; the for-of loop goes on from there
SimpleAccessSettled(c) ==
    /\ pc[c] = "access"
    /\ LET file == inputFiles[c].a[idx[c]] IN
       IF ~Access(fs, file)
         THEN /\ Throw(c, NotFoundMsg(file))
              /\ UNCHANGED <<idx, checked, command, runCount, eng, console>>
       ELSE IF idx[c] < Len(inputFiles[c].a)
         THEN /\ idx' = [idx EXCEPT ![c] = @ + 1]
              /\ checked' = [checked EXCEPT
                               ![c] = Append(@, inputFiles[c].a[idx[c] + 1])]
              /\ UNCHANGED <<pc, command, runCount, eng, console, promise,
                             error>>
       ELSE /\ SimpleSubmit(c)
            /\ UNCHANGED <<idx, checked>>
    /\ UNCHANGED <<sdkVars, callers, fs, inputFiles, outputFile, engErr,
                   written, nprog, events>>

\* the engine's progress event: no handler is registered for it
SimpleProgress(c) ==
    /\ EngineEmits(c, "progress")
    /\ nprog' = [nprog EXCEPT ![c] = @ + 1]
    /\ UNCHANGED <<sdkVars, callers, fs, pc, inputFiles, outputFile, idx,
                   checked, command, runCount, eng, engErr, written, events,
                   console, promise, error>>

\* .on("end", ...)
SimpleOnEnd(c) ==
    /\ EngineEmits(c, "end")
    /\ eng' = [eng EXCEPT ![c] = "exitedClean"]
    /\ events' = [events EXCEPT ![c] = Append(@, "end")]
    /\ console' = [console EXCEPT
                     ![c] = Append(@, Log("completed",
                                          TemplateText(outputFile[c])))]
    /\ Resolve(c)
    /\ UNCHANGED <<sdkVars, callers, fs, pc, inputFiles, outputFile, idx,
                   checked, command, runCount, engErr, written, nprog>>

\* the requests the variants are compared on
VariantInputs ==
    { Undefined, Arr(<<>>), Arr(<<Num("42")>>), Arr(<<Str("a.mp3")>>),
      Arr(<<Str("a.mp3"), Str("b.mp3")>>) }
VariantOutputs == {Undefined, Str("c.mp3"), Num("42")}
\* the progress values the engine delivers here
VariantPercents == {Pct(605)}

VariantInit ==
    /\ callers = CallIds
    /\ InitCall
    /\ fs["b.mp3"] = "file" /\ fs["c.mp3"] = "absent"
    /\ SdkIdle

VariantNext ==
    \/ \E c \in CallIds, inF \in VariantInputs, outF \in VariantOutputs :
          Merge(c, inF, outF)
    \/ AccessSettled(1)
    \/ SimpleAccessSettled(2)
    \/ \E c \in CallIds : OnStart(c)
    \/ \E p \in VariantPercents : OnProgress(1, p)
    \/ SimpleProgress(2)
    \/ \E c \in CallIds : EngineWrite(c)
    \/ OnEnd(1)
    \/ SimpleOnEnd(2)
    \/ \E c \in CallIds, msg \in UnavailableTexts : EngineUnavailable(c, msg)
    \/ \E c \in CallIds, msg \in FailureTexts : EngineFailure(c, msg)

VariantSpec == VariantInit /\ [][VariantNext]_vars

(***************************************************************************)
(* tts({provider, apiKey, text, voice, outputFile, ...}): one call.  The   *)
(* provider is asked for audio, the audio is written to outputFile; every  *)
(* provider branch runs inside try { ... } catch (err) { console.error }.  *)
(***************************************************************************)
UpperChars == <<"A", "B", "C", "D", "E", "F", "G", "H", "I", "J", "K", "L",
                "M", "N", "O", "P", "Q", "R", "S", "T", "U", "V", "W", "X",
                "Y", "Z">>
LowerChars == <<"a", "b", "c", "d", "e", "f", "g", "h", "i", "j", "k", "l",
                "m", "n", "o", "p", "q", "r", "s", "t", "u", "v", "w", "x",
                "y", "z">>
LowerChar(ch) ==
    IF \E i \in DOMAIN UpperChars : UpperChars[i] = ch
      THEN LowerChars[CHOOSE i \in DOMAIN UpperChars : UpperChars[i] = ch]
      ELSE ch

\* mutant of ToLowerCase: the name is compared as given
ToLowerCaseAsGiven(w) == w

\* String.prototype.toLowerCase, character by character
ToLowerCase(w) == [i \in 1..Len(w) |-> LowerChar(w[i])]

\* the case labels of the switch
gemini == <<"g", "e", "m", "i", "n", "i">>
deepgram == <<"d", "e", "e", "p", "g", "r", "a", "m">>
openai == <<"o", "p", "e", "n", "a", "i">>
groq == <<"g", "r", "o", "q">>
cartesia == <<"c", "a", "r", "t", "e", "s", "i", "a">>
TtsProviders == {gemini, deepgram, openai, groq, cartesia}

\* the provider arguments drawn: absent, empty, the five names, other
\* spellings of them, and names of no branch
TtsProviderValues ==
    { NoProvider, Provider(<<>>),
      Provider(gemini), Provider(<<"G", "e", "m", "i", "n", "i">>),
      Provider(deepgram), Provider(<<"D", "E", "E", "P", "G", "R", "A", "M">>),
      Provider(openai), Provider(<<"O", "p", "e", "n", "A", "I">>),
      Provider(groq), Provider(cartesia),
      Provider(<<"a", "z", "u", "r", "e">>),
      Provider(<<"g", "e", "m", "i", "n", "i", "s">>) }

TtsOptions ==
    [ provider : TtsProviderValues,
      apiKey : {Undefined, Str(""), Str("key")},
      text : {Str(""), Str("hello")},
      voice : {Undefined, Str("nova")},
      outputFile : {Undefined, Str("c.mp3")} ]

\* a parameter default: `name = d` in the parameter list
DefaultTo(v, d) == IF v.t = "undefined" THEN d ELSE v

\* !provider, for a provider name
ProviderFalsy(p) == ~p.given \/ p.name = <<>>

\* mutant of TtsMissing: voice is not among the required parameters
TtsMissingButVoice(o) ==
    ProviderFalsy(o.provider) \/ Falsy(o.apiKey) \/ Falsy(o.text)

\* !provider || !apiKey || !text || !voice
TtsMissing(o) ==
    ProviderFalsy(o.provider) \/ Falsy(o.apiKey) \/ Falsy(o.text)
        \/ Falsy(o.voice)

MissingParamsMsg ==
    <<"Missing required parameters: provider, apiKey, text, or voice.">>
\* `Provider "${provider}" is not supported.`
NotSupportedMsg(name) == <<"Provider">> \o name \o <<"is not supported.">>

\* the branches that test the provider's reply for audio before writing
TtsChecksAudio == {gemini, deepgram}
\* the branches that log before the request
TtsAnnounces == {gemini, deepgram, groq, cartesia}
\* what a provider answers: audio, a reply without audio, an error
TtsReplies == {"audio", "empty", "error"}

\* tts(o), up to the first await or to the throw
Tts(o) ==
    /\ ttsCall.pc = "idle"
    /\ LET called == [ttsCall EXCEPT
                        !.provider = o.provider, !.apiKey = o.apiKey,
                        !.text = o.text, !.voice = o.voice,
                        !.outputFile = DefaultTo(o.outputFile,
                                                 Str("output.mp3")).s]
       IN IF TtsMissing(o)
            THEN ttsCall' = [called EXCEPT !.pc = "threw",
                                           !.promise = "rejected",
                                           !.error = MissingParamsMsg]
          ELSE IF ToLowerCase(o.provider.name) \in TtsProviders
            THEN ttsCall' =
                   [called EXCEPT
                      !.pc = "request",
                      !.branch = ToLowerCase(o.provider.name),
                      !.requests = @ + 1,
                      !.promise = "pending",
                      !.console = IF ToLowerCase(o.provider.name)
                                       \in TtsAnnounces
                                    THEN Append(@, "generating") ELSE @]
          ELSE ttsCall' = [called EXCEPT
                             !.pc = "threw",
                             !.promise = "rejected",
                             !.error = NotSupportedMsg(o.provider.name)]
    /\ UNCHANGED <<mergeVars, sttCall, llmCall>>

\* the catch of the branch: console.error, then the function returns
TtsCaught(call) ==
    [call EXCEPT !.pc = "returned", !.promise = "resolved",
                 !.console = Append(@, "error")]

\* the provider's reply r arrives: the await of the request settles
TtsResponse(r) ==
    /\ ttsCall.pc = "request"
    /\ LET got == [ttsCall EXCEPT !.audio = r] IN
       IF r = "error" \/ (r = "empty" /\ ttsCall.branch \in TtsChecksAudio)
         THEN ttsCall' = TtsCaught(got)
         ELSE ttsCall' = [got EXCEPT !.pc = "write"]
    /\ UNCHANGED <<mergeVars, sttCall, llmCall>>

\* the write of the audio to outputFile settles, ok or not
TtsWritten(ok) ==
    /\ ttsCall.pc = "write"
    /\ IF ok
         THEN ttsCall' = [ttsCall EXCEPT !.pc = "returned",
                                         !.file = "written",
                                         !.promise = "resolved",
                                         !.console = Append(@, "saved")]
         ELSE ttsCall' = TtsCaught([ttsCall EXCEPT !.file = "failed"])
    /\ UNCHANGED <<mergeVars, sttCall, llmCall>>

\* no merge call is made
NoMergeCall == callers = {} /\ InitCall
\* no merge call is made; the file system is empty
MergeIdle == NoMergeCall /\ fs = [p \in Paths |-> "absent"]

TtsInit == MergeIdle /\ SdkIdle

TtsNext ==
    \/ \E o \in TtsOptions : Tts(o)
    \/ \E r \in TtsReplies : TtsResponse(r)
    \/ \E ok \in BOOLEAN : TtsWritten(ok)

TtsSpec == TtsInit /\ [][TtsNext]_vars

(***************************************************************************)
(* stt({provider, apiKey, audioFile, outputFile, fullResponse, ...}): one  *)
(* call.  The provider transcribes the audio; the result is saved to       *)
(* outputFile when one is named (a failed save is only warned about) and   *)
(* returned, as the transcript or as the full result object.               *)
(***************************************************************************)
assemblyai == <<"a", "s", "s", "e", "m", "b", "l", "y", "a", "i">>
\* const supportedProviders = ["deepgram", "assemblyai"]
SttProviders == {deepgram, assemblyai}

SttProviderValues ==
    { NoProvider, Provider(deepgram),
      Provider(<<"D", "e", "e", "p", "g", "r", "a", "m">>),
      Provider(assemblyai),
      Provider(<<"A", "s", "s", "e", "m", "b", "l", "y", "A", "I">>),
      Provider(<<"w", "h", "i", "s", "p", "e", "r">>) }

\* the strings the test /^https?:\/\//i accepts, of those drawn
Urls == {"https://x/a.mp3"}
IsUrl(v) == v.s \in Urls

SttOptions ==
    [ provider : SttProviderValues,
      apiKey : {Undefined, Str("key")},
      audioFile : {Undefined, Str("a.mp3"), Str("https://x/a.mp3")},
      outputFile : {Undefined, Str(""), Str("c.mp3")},
      fullResponse : {"undefined", "false", "true"} ]

\* the parameter default fullResponse = false
FullResponse(v) == IF v = "undefined" THEN "false" ELSE v

SttNoProviderMsg == <<"Missing required parameter: provider">>
SttNoApiKeyMsg == <<"Missing required parameter: apiKey">>
SttNoAudioFileMsg ==
    <<"audioFile parameter is required (can be local file path or HTTP URL)">>
SttNotSupportedMsg(name) ==
    <<"Provider">> \o name
        \o <<"is not supported. Supported providers: deepgram, assemblyai">>
SttNotFoundMsg(file) == <<"Audio file not found:", file.s>>
SttReadFailedMsg(file) ==
    <<"EISDIR: illegal operation on a directory, read">>
SttNoResultMsg == <<"No transcription result received">>
AssemblyFailedMsg(msg) == <<"AssemblyAI transcription failed:">> \o msg
AssemblyStatusMsg(status) == <<"Transcription failed with status:", status>>

\* what a provider answers: a completed transcription (with or without its
\* text, confidence and words), an error reply, an unfinished one, or the
\* request itself fails
Completed(text, confidence, words) ==
    [status |-> "completed", text |-> text, confidence |-> confidence,
     words |-> words, msg |-> <<>>]
Failed(status, msg) ==
    [status |-> status, text |-> Undefined, confidence |-> Undefined,
     words |-> Undefined, msg |-> msg]
SttReplies ==
    { Completed(Str("hello world"), Num("0.9"),
                Arr(<<Str("hello"), Str("world")>>)),
      Completed(Undefined, Undefined, Undefined),
      Failed("error", <<"bad", "audio">>),
      Failed("queued", <<>>),
      Failed("throws", <<"401", "Unauthorized">>) }

\* v || d
Or(v, d) == IF Falsy(v) THEN d ELSE v

\* const transcriptionResult = { transcript, confidence, words, fullResult,
\* metadata }
TranscriptionResult(branch, r) ==
    [transcript |-> Or(r.text, Str("")).s,
     confidence |-> Or(r.confidence, Num("0")).s,
     words |-> Or(r.words, Arr(<<>>)).a,
     fullResult |-> r,
     metadata |-> [provider |-> branch]]

\* mutant of SttReturn: the transcript is returned whatever fullResponse is
SttReturnTranscript(full, result) ==
    [kind |-> "string", s |-> result.transcript, o |-> NoResult]

\* return fullResponse ? transcriptionResult : transcript
SttReturn(full, result) ==
    IF full = "true"
      THEN [kind |-> "object", s |-> "", o |-> result]
      ELSE [kind |-> "string", s |-> result.transcript, o |-> NoResult]

\* throw inside transcribeWith...: its catch logs and rethrows
SttThrow(call, msg) ==
    [call EXCEPT !.pc = "threw", !.promise = "rejected", !.error = msg,
                 !.console = Append(@, "failed")]

\* stt(o), up to the first await or to the throw
Stt(o) ==
    /\ sttCall.pc = "idle"
    /\ LET called == [sttCall EXCEPT
                        !.provider = o.provider, !.apiKey = o.apiKey,
                        !.audioFile = o.audioFile,
                        !.outputFile = DefaultTo(o.outputFile,
                                                 Str("transcription.json")),
                        !.fullResponse = o.fullResponse]
           rejected(msg) == [called EXCEPT !.pc = "threw",
                                           !.promise = "rejected",
                                           !.error = msg]
           branch == ToLowerCase(o.provider.name)
           asked == [called EXCEPT !.pc = "request", !.branch = branch,
                                   !.requests = @ + 1,
                                   !.promise = "pending",
                                   !.console = Append(@, "transcribing")]
       IN IF ProviderFalsy(o.provider)
            THEN sttCall' = rejected(SttNoProviderMsg)
          ELSE IF Falsy(o.apiKey)
            THEN sttCall' = rejected(SttNoApiKeyMsg)
          ELSE IF Falsy(o.audioFile)
            THEN sttCall' = rejected(SttNoAudioFileMsg)
          ELSE IF branch \notin SttProviders
            THEN sttCall' = rejected(SttNotSupportedMsg(o.provider.name))
          ELSE IF branch = deepgram /\ ~IsUrl(o.audioFile)
            THEN \* fs.existsSync, fs.readFileSync of the local file
                 IF fs[o.audioFile.s] = "absent"
                   THEN sttCall' =
                          SttThrow([called EXCEPT
                                      !.branch = branch,
                                      !.console = Append(@, "transcribing")],
                                   SttNotFoundMsg(o.audioFile))
                 ELSE IF fs[o.audioFile.s] = "dir"
                   THEN sttCall' =
                          SttThrow([called EXCEPT
                                      !.branch = branch,
                                      !.console = Append(@, "transcribing")],
                                   SttReadFailedMsg(o.audioFile))
                 ELSE sttCall' = asked
          ELSE sttCall' = asked
    /\ UNCHANGED <<mergeVars, ttsCall, llmCall>>

\* the result was built: save it when outputFile is named, else return
SttProcess(call) ==
    IF ~Falsy(call.outputFile)
      THEN [call EXCEPT !.pc = "write", !.console = Append(@, "completed")]
      ELSE [call EXCEPT
              !.pc = "returned",
              !.console = Append(@, "completed"),
              !.promise = "resolved",
              !.value = SttReturn(FullResponse(call.fullResponse),
                                  TranscriptionResult(call.branch,
                                                      call.reply))]

\* the provider's reply r arrives: the await of the request settles
SttResponse(r) ==
    /\ sttCall.pc = "request"
    /\ LET got == [sttCall EXCEPT !.reply = r] IN
       IF r.status = "throws"
         THEN sttCall' = SttThrow(got, r.msg)
       ELSE IF r.status = "completed"
         THEN sttCall' = SttProcess(got)
       ELSE IF sttCall.branch = deepgram
         THEN sttCall' = IF r.status = "error"
                           THEN SttThrow(got, r.msg)
                           ELSE SttThrow(got, SttNoResultMsg)
       ELSE sttCall' = IF r.status = "error"
                         THEN SttThrow(got, AssemblyFailedMsg(r.msg))
                         ELSE SttThrow(got, AssemblyStatusMsg(r.status))
    /\ UNCHANGED <<mergeVars, ttsCall, llmCall>>

\* mutant of SttWritten: a failed save fails the transcription
SttWrittenRethrows(ok) ==
    /\ sttCall.pc = "write"
    /\ sttCall' =
         IF ok
           THEN [sttCall EXCEPT
                   !.pc = "returned", !.file = "written",
                   !.console = Append(@, "saved"),
                   !.promise = "resolved",
                   !.value = SttReturn(FullResponse(sttCall.fullResponse),
                                       TranscriptionResult(sttCall.branch,
                                                           sttCall.reply))]
           ELSE SttThrow([sttCall EXCEPT !.file = "failed"],
                         <<"EACCES: permission denied, open">>)
    /\ UNCHANGED <<mergeVars, ttsCall, llmCall>>

\* await fs.promises.writeFile(outputFile, ...) settles, ok or not; then
\* the return
SttWritten(ok) ==
    /\ sttCall.pc = "write"
    /\ sttCall' =
         [sttCall EXCEPT
            !.pc = "returned",
            !.file = IF ok THEN "written" ELSE "failed",
            !.console = Append(@, IF ok THEN "saved" ELSE "warned"),
            !.promise = "resolved",
            !.value = SttReturn(FullResponse(sttCall.fullResponse),
                                TranscriptionResult(sttCall.branch,
                                                    sttCall.reply))]
    /\ UNCHANGED <<mergeVars, ttsCall, llmCall>>

\* the local audio file exists, is a directory or is absent
SttInit ==
    /\ NoMergeCall
    /\ fs["b.mp3"] = "absent" /\ fs["c.mp3"] = "absent"
    /\ SdkIdle

SttNext ==
    \/ \E o \in SttOptions : Stt(o)
    \/ \E r \in SttReplies : SttResponse(r)
    \/ \E ok \in BOOLEAN : SttWritten(ok)

SttSpec == SttInit /\ [][SttNext]_vars

(***************************************************************************)
(* llm({provider, apiKey, text, stream, ...}) and llmChat({provider,       *)
(* apiKey, messages, stream, ...}): one call.  The provider generates a    *)
(* text (or opens a stream); every catch logs and rethrows.                *)
(***************************************************************************)
LlmProviders == {"openai", "gemini"}

LlmOptions ==
    [ fn : {"llm", "llmChat"},
      provider : {"undefined", "openai", "gemini", "OpenAI", "claude"},
      apiKey : {Undefined, Str("key")},
      input : {Undefined, Str("hi"), Arr(<<Str("hi")>>)},
      stream : {"undefined", "false", "true"} ]

\* the parameter default provider = "openai"
LlmProvider(v) == IF v = "undefined" THEN "openai" ELSE v
\* the parameter default stream = false
Stream(v) == IF v = "undefined" THEN "false" ELSE v

LlmMissingMsg == <<"Missing required parameters: apiKey or text.">>
LlmChatMissingMsg ==
    <<"Missing required parameters: apiKey or messages array.">>
UnsupportedMsg(provider) ==
    <<"Unsupported provider:", provider,
      ". Supported providers are \"openai\" and \"gemini\".">>
NoResponseMsg(provider) ==
    <<"No response generated from",
      IF provider = "gemini" THEN "Gemini" ELSE "OpenAI">>

\* !apiKey || !text, and !apiKey || !messages || !Array.isArray(messages)
LlmMissing(o) ==
    IF o.fn = "llm"
      THEN Falsy(o.apiKey) \/ Falsy(o.input)
      ELSE Falsy(o.apiKey) \/ Falsy(o.input) \/ ~IsArray(o.input)

\* what a provider answers to a request: a completion with a text, with an
\* empty text or with none, or the request fails
LlmReplies ==
    { Completed(Str("Hello"), Undefined, Undefined),
      Completed(Str(""), Undefined, Undefined),
      Completed(Undefined, Undefined, Undefined),
      Failed("throws", <<"401", "Unauthorized">>) }

\* mutant of NoResponse: only a missing text counts as no response
NoResponseWhenUndefined(response) == response.t = "undefined"

\* if (!response)
NoResponse(response) == Falsy(response)

\* llm(o) / llmChat(o), up to the first await or to the throw
Llm(o) ==
    /\ llmCall.pc = "idle"
    /\ LET called == [llmCall EXCEPT
                        !.fn = o.fn, !.provider = LlmProvider(o.provider),
                        !.apiKey = o.apiKey, !.input = o.input,
                        !.stream = o.stream]
       IN IF LlmMissing(o)
            THEN llmCall' = [called EXCEPT
                               !.pc = "threw", !.promise = "rejected",
                               !.error = IF o.fn = "llm"
                                           THEN LlmMissingMsg
                                           ELSE LlmChatMissingMsg]
          ELSE IF LlmProvider(o.provider) \in LlmProviders
            THEN llmCall' = [called EXCEPT
                               !.pc = "request", !.requests = @ + 1,
                               !.promise = "pending",
                               !.console = Append(@, "generating")]
          ELSE llmCall' =
                 [called EXCEPT
                    !.pc = "threw", !.promise = "rejected",
                    !.error = UnsupportedMsg(LlmProvider(o.provider)),
                    !.console = Append(@, "llmError")]
    /\ UNCHANGED <<mergeVars, ttsCall, sttCall>>

\* throw inside generateWith... / chatWith...: its catch and the catch of
\* llm / llmChat log and rethrow
LlmThrow(call, msg) ==
    [call EXCEPT !.pc = "threw", !.promise = "rejected", !.error = msg,
                 !.console = @ \o <<"providerError", "llmError">>]

\* the provider's reply r arrives: the await of the request settles
LlmResponse(r) ==
    /\ llmCall.pc = "request"
    /\ LET got == [llmCall EXCEPT !.reply = r] IN
       IF r.status = "throws"
         THEN llmCall' = LlmThrow(got, r.msg)
       ELSE IF Stream(llmCall.stream) = "true"
         THEN llmCall' = [got EXCEPT
                            !.pc = "returned", !.promise = "resolved",
                            !.value = [kind |-> "stream", s |-> "",
                                       o |-> NoResult]]
       ELSE IF NoResponse(r.text)
         THEN llmCall' = LlmThrow(got, NoResponseMsg(llmCall.provider))
       ELSE llmCall' = [got EXCEPT
                          !.pc = "returned", !.promise = "resolved",
                          !.console = Append(@, "generated"),
                          !.value = [kind |-> "text", s |-> r.text.s,
                                     o |-> NoResult]]
    /\ UNCHANGED <<mergeVars, ttsCall, sttCall>>

LlmInit == MergeIdle /\ SdkIdle

LlmNext ==
    \/ \E o \in LlmOptions : Llm(o)
    \/ \E r \in LlmReplies : LlmResponse(r)

LlmSpec == LlmInit /\ [][LlmNext]_vars

(***************************************************************************)
(* What the claims speak of, stated on the state alone.                    *)
(***************************************************************************)
Settled(c) == promise[c] \in {"resolved", "rejected"}
\* the argument is an array with at least one element
NonEmptyArray(v) == v.t = "array" /\ v.a # <<>>
\* the argument is absent or the empty string
AbsentValue(v) == v.t = "undefined" \/ (v.t = "string" /\ v.s = "")
\* the value is a path that refers to nothing in file system fsys
Missing(fsys, v) == v.t = "string" /\ v.s \in Paths /\ fsys[v.s] = "absent"
\* t is the tail of message m
IsSuffix(t, m) ==
    /\ Len(t) <= Len(m)
    /\ SubSeq(m, Len(m) - Len(t) + 1, Len(m)) = t
\* the message is one of merge's two invalid-argument messages
IsInvalidArgument(m) ==
    m \in { <<"inputFiles must be a non-empty array of file paths.">>,
            <<"outputFile parameter is required.">> }
\* the message is merge's file-not-found message for path name
IsFileNotFound(m, name) == m = <<"Input file not found:", name>>
\* the engine has been touched on behalf of call c
EngineTouched(c) ==
    runCount[c] # 0 \/ eng[c] # "none" \/ events[c] # <<>> \/ written[c]

(***************************************************************************)
(* C1 (as stated): every merge call whose inputFiles holds a path that     *)
(* does not exist fails with the file-not-found error naming such a path,  *)
(* never invokes the engine and does not create the output file.           *)
(***************************************************************************)
C1_AsStated ==
    \A c \in callers :
        ( /\ pc[c] = "threw"
          /\ inputFiles[c].t = "array"
          /\ \E i \in 1..Len(inputFiles[c].a) : Missing(fs, inputFiles[c].a[i]) )
        => /\ \E i \in 1..Len(inputFiles[c].a) :
                 /\ Missing(fs, inputFiles[c].a[i])
                 /\ IsFileNotFound(error[c], inputFiles[c].a[i].s)
           /\ ~EngineTouched(c)

(***************************************************************************)
(* C1 (amended): for a merge call that passed the argument checks, when    *)
(* the file check of an input path finds that the path does not exist, the *)
(* call fails with the file-not-found error naming that path; a call that  *)
(* failed so never invoked the engine (no run, no start event) and the     *)
(* engine did not write its output file; and while the engine has not been *)
(* invoked the call's output path is not touched.                          *)
(***************************************************************************)
C1_CheckFails(c) ==
    /\ pc[c] = "access"
    /\ (pc'[c] # pc[c] \/ idx'[c] # idx[c])
    /\ Missing(fs, inputFiles[c].a[idx[c]])

C1_MissingInputFails ==
    /\ [][\A c \in callers :
            /\ C1_CheckFails(c) =>
                 /\ promise'[c] = "rejected"
                 /\ IsFileNotFound(error'[c], inputFiles[c].a[idx[c]].s)
                 /\ ~EngineTouched(c)'
            /\ (eng'[c] = "none" /\ outputFile[c].t = "string"
                                 /\ outputFile[c].s \in Paths)
                 => fs'[outputFile[c].s] = fs[outputFile[c].s]]_vars
    /\ [](\A c \in callers :
            (pc[c] = "threw" /\ error[c][1] = "Input file not found:")
              => promise[c] = "rejected" /\ ~EngineTouched(c))

\* the second of two inputs is missing, the call failed naming it, and the
\* output file does not exist
C1_Witness ==
    /\ pc[1] = "threw"
    /\ inputFiles[1] = Arr(<<Str("a.mp3"), Str("b.mp3")>>)
    /\ checked[1] = <<Str("a.mp3"), Str("b.mp3")>>
    /\ error[1] = <<"Input file not found:", "b.mp3">>
    /\ fs["b.mp3"] = "absent" /\ fs["c.mp3"] = "absent"
    /\ runCount[1] = 0

(***************************************************************************)
(* C2: when inputFiles is absent, not an array or empty, or outputFile is  *)
(* absent, the call fails with the invalid-argument error of that          *)
(* argument before any I/O: no file check was issued, the engine was not   *)
(* invoked.                                                                *)
(***************************************************************************)
C2_InvalidArgumentsFailFirst ==
    \A c \in callers :
        pc[c] # "idle" =>
          /\ ~NonEmptyArray(inputFiles[c]) =>
               /\ promise[c] = "rejected"
               /\ error[c] = <<"inputFiles must be a non-empty array of file paths.">>
               /\ checked[c] = <<>> /\ ~EngineTouched(c)
          /\ (NonEmptyArray(inputFiles[c]) /\ AbsentValue(outputFile[c])) =>
               /\ promise[c] = "rejected"
               /\ error[c] = <<"outputFile parameter is required.">>
               /\ checked[c] = <<>> /\ ~EngineTouched(c)

\* a call naming an input that does not exist, with an empty outputFile, has
\* failed on the outputFile without any file check
C2_Witness ==
    /\ pc[1] = "threw"
    /\ inputFiles[1] = Arr(<<Str("a.mp3")>>)
    /\ outputFile[1] = Str("")
    /\ error[1] = <<"outputFile parameter is required.">>
    /\ checked[1] = <<>>
    /\ fs["a.mp3"] = "absent"

(***************************************************************************)
(* C3: the promise is resolved only if the engine emitted its end event;   *)
(* it is rejected once the engine emitted its error event and once a       *)
(* validation step threw; no failure ends in a resolved promise.           *)
(***************************************************************************)
C3_ResolvesOnlyOnEnd ==
    \A c \in callers :
        /\ promise[c] = "resolved" =>
             /\ pc[c] = "submitted"
             /\ events[c] # <<>>
             /\ events[c][Len(events[c])] = "end"
             /\ \A i \in 1..Len(events[c]) : events[c][i] # "error"
             /\ eng[c] = "exitedClean"
        /\ ( \/ pc[c] = "threw"
             \/ eng[c] \in {"exitedError", "unavailable"}
             \/ \E i \in 1..Len(events[c]) : events[c][i] = "error" )
           => promise[c] = "rejected" /\ error[c] # <<>>

\* the engine started, reported progress and ended, and the promise resolved
C3_Witness ==
    /\ promise[1] = "resolved"
    /\ events[1] = <<"start", "progress", "end">>

C5_EventuallySettles ==
    \A c \in CallIds : (pc[c] # "idle") ~> Settled(c)

\* a call that checked two files and waited for the engine has settled
C5_Witness ==
    /\ promise[1] = "resolved"
    /\ Len(checked[1]) = 2
    /\ events[1] = <<"start", "end">>

(***************************************************************************)
(* C6: the inputs bound to the command are exactly inputFiles, in order:   *)
(* as many, the i-th binding the i-th element, nothing bound before the    *)
(* command is built.                                                       *)
(***************************************************************************)
C6_InputsBoundInOrder ==
    \A c \in callers :
        /\ pc[c] = "submitted" =>
             /\ Len(command[c].inputs) = Len(inputFiles[c].a)
             /\ \A i \in 1..Len(inputFiles[c].a) :
                    command[c].inputs[i] = inputFiles[c].a[i]
        /\ pc[c] # "submitted" => command[c].inputs = <<>>

\* the command of a call naming the same path twice was run with the path
\* bound twice
C6_Witness ==
    /\ runCount[1] = 1
    /\ inputFiles[1] = Arr(<<Str("b.mp3"), Str("b.mp3")>>)
    /\ command[1].inputs = <<Str("b.mp3"), Str("b.mp3")>>

(***************************************************************************)
(* C7 (as stated): a call invokes the engine at most once, exactly once    *)
(* when validation passed (the call went on to build its command), never   *)
(* when it did not, and not again after the engine failed.                 *)
(***************************************************************************)
C7_AsStated ==
    \A c \in callers :
        /\ runCount[c] <= 1
        /\ pc[c] = "submitted" => runCount[c] = 1
        /\ pc[c] # "submitted" => runCount[c] = 0
        /\ eng[c] \in {"exitedError", "unavailable"} => runCount[c] = 1

(***************************************************************************)
(* C8: when the engine emitted its error event, the message of the error   *)
(* the promise is rejected with ends with the engine's text, token for     *)
(* token; merge adds its fixed prefix and nothing else.                    *)
(***************************************************************************)
C8_EngineTextVerbatim ==
    \A c \in callers :
        (\E i \in 1..Len(events[c]) : events[c][i] = "error") =>
            /\ promise[c] = "rejected"
            /\ engErr[c] # <<>>
            /\ IsSuffix(engErr[c], error[c])
            /\ Len(error[c]) = Len(engErr[c]) + 1

\* the engine failed with its exit text and the promise carries it
C8_Witness ==
    /\ eng[1] = "exitedError"
    /\ engErr[1] = <<"ffmpeg", "exited", "with", "code", "1:", "Invalid", "data">>
    /\ error[1] = <<"Failed to merge audio files:", "ffmpeg", "exited", "with",
                    "code", "1:", "Invalid", "data">>

(***************************************************************************)
(* C9 (as stated): when the engine could not be located or started, the    *)
(* error the call fails with is not of the form merge gives to a failure   *)
(* of an engine that ran ("Failed to merge audio files: <text>").          *)
(***************************************************************************)
C9_AsStated ==
    \A c \in callers :
        eng[c] = "unavailable" =>
            /\ promise[c] = "rejected"
            /\ error[c][1] # "Failed to merge audio files:"

(***************************************************************************)
(* C10: merge reports success (logs completion, resolves) only in a step   *)
(* in which the engine exits cleanly, and the output file exists then.     *)
(***************************************************************************)
C10_ReportsSuccess(c) ==
    \/ promise[c] # "resolved" /\ promise'[c] = "resolved"
    \/ \E i \in (Len(console[c]) + 1)..Len(console'[c]) :
           console'[c][i].tag = "completed"

StringSequence(v) ==
    NonEmptyArray(v) /\ \A i \in 1..Len(v.a) : v.a[i].t = "string"
\* the argument is a non-empty string
NonEmptyString(v) == v.t = "string" /\ v.s # ""

(***************************************************************************)
(* C11 (as stated): a call whose inputFiles is not a non-empty sequence of *)
(* strings, or whose outputFile is not a non-empty string, fails with the  *)
(* invalid-argument error of the argument at fault.                        *)
(***************************************************************************)
C11_AsStated ==
    \A c \in callers :
        Settled(c) =>
          /\ ~StringSequence(inputFiles[c]) =>
               /\ promise[c] = "rejected"
               /\ error[c] = <<"inputFiles must be a non-empty array of file paths.">>
          /\ (StringSequence(inputFiles[c]) /\ ~NonEmptyString(outputFile[c])) =>
               /\ promise[c] = "rejected"
               /\ error[c] = <<"outputFile parameter is required.">>

(***************************************************************************)
(* C12 (as stated): when the file check of an input path that is not a     *)
(* regular file (a directory) settles, the call fails with the             *)
(* file-not-found error naming that path, the engine not invoked.          *)
(***************************************************************************)
C12_AsStated ==
    [][\A c \in callers :
          ( /\ pc[c] = "access"
            /\ (pc'[c] # pc[c] \/ idx'[c] # idx[c])
            /\ inputFiles[c].a[idx[c]].t = "string"
            /\ fs[inputFiles[c].a[idx[c]].s] = "dir" )
          => /\ promise'[c] = "rejected"
             /\ IsFileNotFound(error'[c], inputFiles[c].a[idx[c]].s)
             /\ ~EngineTouched(c)']_vars

(***************************************************************************)
(* C18: the file checks are issued one at a time in list order: the        *)
(* entries checked so far are a prefix of inputFiles, a check is issued    *)
(* for the next entry only when the current entry was found to exist, the  *)
(* file-not-found error names the entry whose check failed (every entry    *)
(* before it existed when it was checked), and after the failure no        *)
(* further entry is checked.                                               *)
(***************************************************************************)
C18_ChecksInOrder ==
    /\ [](\A c \in callers :
            /\ inputFiles[c].t = "array" =>
                 /\ Len(checked[c]) <= Len(inputFiles[c].a)
                 /\ \A i \in 1..Len(checked[c]) :
                        checked[c][i] = inputFiles[c].a[i]
            /\ inputFiles[c].t # "array" => checked[c] = <<>>
            /\ (pc[c] = "threw" /\ error[c][1] = "Input file not found:") =>
                 /\ checked[c] # <<>>
                 /\ error[c][2] = checked[c][Len(checked[c])].s)
    /\ [][\A c \in callers :
            /\ (pc[c] = "access" /\ checked'[c] # checked[c]) =>
                 /\ checked'[c] = Append(checked[c],
                                         inputFiles[c].a[Len(checked[c]) + 1])
                 /\ ~Missing(fs, checked[c][Len(checked[c])])
                 /\ checked[c][Len(checked[c])].t = "string"
            /\ (pc[c] = "access" /\ Missing(fs, checked[c][Len(checked[c])])
                                 /\ (pc'[c] # pc[c] \/ idx'[c] # idx[c])) =>
                 /\ promise'[c] = "rejected"
                 /\ IsFileNotFound(error'[c], checked[c][Len(checked[c])].s)
                 /\ checked'[c] = checked[c]
            /\ pc[c] \in {"threw", "submitted"} => checked'[c] = checked[c]]_vars

\* both inputs are missing: the error names the first, the second was never
\* checked
C18_Witness ==
    /\ pc[1] = "threw"
    /\ inputFiles[1] = Arr(<<Str("b.mp3"), Str("a.mp3")>>)
    /\ fs["a.mp3"] = "absent" /\ fs["b.mp3"] = "absent"
    /\ checked[1] = <<Str("b.mp3")>>
    /\ error[1] = <<"Input file not found:", "b.mp3">>

C20_Reported(c) == SelectSeq(console[c], LAMBDA e : e.tag = "progress")

C20_AsStated ==
    \A c \in callers :
        \A i \in 1..Len(C20_Reported(c)) :
            /\ C20_Reported(c)[i].val \in 0..100
            /\ i > 1 => C20_Reported(c)[i - 1].val <= C20_Reported(c)[i].val

(***************************************************************************)
(* C13 (as stated): whenever the promise of a tts call is resolved, the    *)
(* provider returned audio and the output file has been written.           *)
(***************************************************************************)
C13_AsStated ==
    ttsCall.promise = "resolved" =>
        ttsCall.audio = "audio" /\ ttsCall.file = "written"

(***************************************************************************)
(* C14: a tts call in which provider, apiKey, text or voice is absent or   *)
(* empty is rejected with the missing-required-parameters error, no        *)
(* provider branch selected, no request made and no file written.          *)
(***************************************************************************)
C14_MissingRejectsFirst ==
    ( /\ ttsCall.pc # "idle"
      /\ \/ ~ttsCall.provider.given
         \/ ttsCall.provider.name = <<>>
         \/ AbsentValue(ttsCall.apiKey)
         \/ AbsentValue(ttsCall.text)
         \/ AbsentValue(ttsCall.voice) )
    => /\ ttsCall.promise = "rejected"
       /\ ttsCall.error =
            <<"Missing required parameters: provider, apiKey, text, or voice.">>
       /\ ttsCall.branch = <<>>
       /\ ttsCall.requests = 0
       /\ ttsCall.audio = "none"
       /\ ttsCall.file = "none"

\* a call that names a provider, a key and a text but no voice was rejected
C14_Witness ==
    /\ ttsCall.pc = "threw"
    /\ ttsCall.provider = Provider(<<"o", "p", "e", "n", "a", "i">>)
    /\ ttsCall.apiKey = Str("key")
    /\ ttsCall.text = Str("hello")
    /\ ttsCall.voice = Undefined
    /\ ttsCall.error =
         <<"Missing required parameters: provider, apiKey, text, or voice.">>

(***************************************************************************)
(* C15: of the provider names a complete tts call is made with, the        *)
(* spellings of gemini, deepgram, openai, groq and cartesia in any case    *)
(* select the branch of that provider; any other name is rejected with     *)
(* the not-supported error naming it as given, no request made and no      *)
(* file written.                                                           *)
(***************************************************************************)
\* spelling, provider: the spellings drawn that differ from a provider's
\* name in case at most
C15_Spellings ==
    { <<<<"g", "e", "m", "i", "n", "i">>, <<"g", "e", "m", "i", "n", "i">>>>,
      <<<<"G", "e", "m", "i", "n", "i">>, <<"g", "e", "m", "i", "n", "i">>>>,
      <<<<"d", "e", "e", "p", "g", "r", "a", "m">>,
        <<"d", "e", "e", "p", "g", "r", "a", "m">>>>,
      <<<<"D", "E", "E", "P", "G", "R", "A", "M">>,
        <<"d", "e", "e", "p", "g", "r", "a", "m">>>>,
      <<<<"o", "p", "e", "n", "a", "i">>, <<"o", "p", "e", "n", "a", "i">>>>,
      <<<<"O", "p", "e", "n", "A", "I">>, <<"o", "p", "e", "n", "a", "i">>>>,
      <<<<"g", "r", "o", "q">>, <<"g", "r", "o", "q">>>>,
      <<<<"c", "a", "r", "t", "e", "s", "i", "a">>,
        <<"c", "a", "r", "t", "e", "s", "i", "a">>>> }

C15_Complete ==
    /\ ttsCall.pc # "idle"
    /\ ttsCall.provider.given /\ ttsCall.provider.name # <<>>
    /\ ~AbsentValue(ttsCall.apiKey)
    /\ ~AbsentValue(ttsCall.text)
    /\ ~AbsentValue(ttsCall.voice)

C15_DispatchIgnoresCase ==
    C15_Complete =>
      /\ \A sp \in C15_Spellings :
             ttsCall.provider.name = sp[1] =>
                 /\ ttsCall.branch = sp[2]
                 /\ ttsCall.requests = 1
                 /\ ttsCall.pc # "threw"
      /\ (\A sp \in C15_Spellings : ttsCall.provider.name # sp[1]) =>
             /\ ttsCall.promise = "rejected"
             /\ ttsCall.error = <<"Provider">> \o ttsCall.provider.name
                                    \o <<"is not supported.">>
             /\ ttsCall.branch = <<>>
             /\ ttsCall.requests = 0
             /\ ttsCall.file = "none"

\* a call naming the provider "OpenAI" took the openai branch and wrote its
\* file
C15_Witness ==
    /\ ttsCall.provider = Provider(<<"O", "p", "e", "n", "A", "I">>)
    /\ ttsCall.branch = <<"o", "p", "e", "n", "a", "i">>
    /\ ttsCall.requests = 1
    /\ ttsCall.file = "written"

(***************************************************************************)
(* C16: the value a successful stt call resolves with is the transcript,   *)
(* a string, when fullResponse is false or not given, and the result       *)
(* object (transcript, confidence, words, the provider's full result,      *)
(* metadata naming the provider) when fullResponse is true; with either    *)
(* provider, whether or not the result was saved.                          *)
(***************************************************************************)
\* the transcript text of the provider's reply, "" when it carries none
C16_Transcript ==
    IF sttCall.reply.text.t = "string" THEN sttCall.reply.text.s ELSE ""

C16_ReturnFollowsFullResponse ==
    sttCall.promise = "resolved" =>
      /\ sttCall.reply.status = "completed"
      /\ sttCall.fullResponse \in {"undefined", "false"} =>
           /\ sttCall.value.kind = "string"
           /\ sttCall.value.s = C16_Transcript
      /\ sttCall.fullResponse = "true" =>
           /\ sttCall.value.kind = "object"
           /\ sttCall.value.o.transcript = C16_Transcript
           /\ sttCall.value.o.fullResult = sttCall.reply
           /\ sttCall.value.o.metadata.provider = sttCall.branch
           /\ sttCall.reply.confidence.t = "number" =>
                sttCall.value.o.confidence = sttCall.reply.confidence.s
           /\ sttCall.reply.words.t = "array" =>
                sttCall.value.o.words = sttCall.reply.words.a

\* an assemblyai call with fullResponse true resolved with the result object
\* carrying the provider's transcript
C16_Witness ==
    /\ sttCall.promise = "resolved"
    /\ sttCall.branch = <<"a", "s", "s", "e", "m", "b", "l", "y", "a", "i">>
    /\ sttCall.fullResponse = "true"
    /\ sttCall.reply.text = Str("hello world")
    /\ sttCall.value.kind = "object"
    /\ sttCall.value.o.transcript = "hello world"

(***************************************************************************)
(* C17: a non-streaming llm or llmChat call resolves only with the         *)
(* non-empty text of the provider's reply; when the reply carries no text  *)
(* (missing or empty) the call is rejected with the no-response-generated  *)
(* error; when the provider's request fails the call is rejected with      *)
(* that error.                                                             *)
(***************************************************************************)
C17_NonStreaming == llmCall.stream \in {"undefined", "false"}

C17_NeverResolvesEmpty ==
    /\ (C17_NonStreaming /\ llmCall.promise = "resolved") =>
          /\ llmCall.value.kind = "text"
          /\ llmCall.value.s # ""
          /\ llmCall.reply.text = Str(llmCall.value.s)
    /\ ( /\ C17_NonStreaming
         /\ llmCall.reply.status = "completed"
         /\ AbsentValue(llmCall.reply.text) ) =>
          /\ llmCall.promise = "rejected"
          /\ Len(llmCall.error) = 2
          /\ llmCall.error[1] = "No response generated from"
    /\ llmCall.reply.status = "throws" =>
          /\ llmCall.promise = "rejected"
          /\ llmCall.error = llmCall.reply.msg

\* a non-streaming llmChat call to gemini whose reply carried an empty text
\* was rejected
C17_Witness ==
    /\ llmCall.fn = "llmChat"
    /\ llmCall.provider = "gemini"
    /\ llmCall.stream = "undefined"
    /\ llmCall.reply = Completed(Str(""), Undefined, Undefined)
    /\ llmCall.promise = "rejected"
    /\ llmCall.error = <<"No response generated from", "Gemini">>

(***************************************************************************)
(* C21: the job of a call that ran the engine has a two-stage filter       *)
(* graph: a concat node over as many inputs as inputFiles has, audio only  *)
(* (v = 0, a = 1), whose one output is the input of the loudnorm node;    *)
(* the output of the loudnorm node is the stream mapped to the output,     *)
(* which is outputFile; the encoding options are libmp3lame, 320k, 48000   *)
(* and quality 0 whatever the request.                                     *)
(***************************************************************************)
C21_TwoStageGraph ==
    \A c \in callers :
        runCount[c] > 0 =>
          /\ Len(command[c].filters) = 2
          /\ command[c].filters[1].filter = "concat"
          /\ command[c].filters[1].options.n = Len(inputFiles[c].a)
          /\ command[c].filters[1].options.v = 0
          /\ command[c].filters[1].options.a = 1
          /\ command[c].filters[2].filter = "loudnorm"
          /\ command[c].filters[2].inputs = command[c].filters[1].outputs
          /\ command[c].filters[2].outputs = "out"
          /\ SubSeq(command[c].options, 1, 2) = <<"-map", "[out]">>
          /\ SubSeq(command[c].options, 3, Len(command[c].options))
               = <<"-c:a", "libmp3lame", "-b:a", "320k", "-ar", "48000",
                   "-q:a", "0">>
          /\ command[c].output = outputFile[c]

\* the engine was run on the job of a call with one input: concat has n = 1
C21_Witness ==
    /\ runCount[1] = 1
    /\ inputFiles[1] = Arr(<<Str("b.mp3")>>)
    /\ command[1].filters[1].options.n = 1
    /\ command[1].output = Str("c.mp3")

(***************************************************************************)
(* C23 (as stated): the file system changes under a merge call in flight   *)
(* only while the call waits for the engine: not while it is still         *)
(* checking its input files.                                               *)
(***************************************************************************)
C23_AsStated ==
    [][fs' # fs =>
         \A c \in callers :
             promise[c] = "pending" => pc[c] = "submitted"]_vars

(***************************************************************************)
(* C25: when the transcription succeeded, stt resolves with the value      *)
(* that follows from the provider's reply and fullResponse, whether the    *)
(* save to outputFile succeeded, failed or was not attempted: the step in  *)
(* which the save settles resolves the promise and leaves its error unset. *)
(***************************************************************************)
C25_Text ==
    IF sttCall.reply.text.t = "string" THEN sttCall.reply.text.s ELSE ""

C25_ValueOfReply ==
    IF sttCall.fullResponse = "true"
      THEN [kind |-> "object", s |-> "",
            o |-> [transcript |-> C25_Text,
                   confidence |-> IF sttCall.reply.confidence.t = "number"
                                    THEN sttCall.reply.confidence.s ELSE "0",
                   words |-> sttCall.reply.words.a,
                   fullResult |-> sttCall.reply,
                   metadata |-> [provider |-> sttCall.branch]]]
      ELSE [kind |-> "string", s |-> C25_Text, o |-> NoResult]

C25_SaveNeverFails ==
    /\ [](sttCall.file \in {"written", "failed"} =>
             /\ sttCall.promise = "resolved"
             /\ sttCall.error = <<>>
             /\ sttCall.value = C25_ValueOfReply)
    /\ []((sttCall.reply.status = "completed" /\ sttCall.pc # "write") =>
             /\ sttCall.promise = "resolved"
             /\ sttCall.value = C25_ValueOfReply)
    /\ [][sttCall.pc = "write" =>
             /\ sttCall'.promise = "resolved"
             /\ sttCall'.file \in {"written", "failed"}]_vars

\* the save of a deepgram transcription failed and the call resolved with
\* the transcript
C25_Witness ==
    /\ sttCall.branch = <<"d", "e", "e", "p", "g", "r", "a", "m">>
    /\ sttCall.file = "failed"
    /\ sttCall.promise = "resolved"
    /\ sttCall.value.kind = "string"
    /\ sttCall.value.s = "hello world"

(***************************************************************************)
(* What two concurrent calls are compared on.                              *)
(***************************************************************************)
\* everything call c owns
C22_Own(c) ==
    <<pc[c], inputFiles[c], outputFile[c], idx[c], checked[c], command[c],
      runCount[c], eng[c], engErr[c], written[c], nprog[c], events[c],
      console[c], promise[c], error[c]>>
\* what path p referred to before the calls: b.mp3 and c.mp3 nothing, and
\* a.mp3, which no call writes, what it refers to now
C22_Before(p) == IF p = "a.mp3" THEN fs[p] ELSE "absent"
\* a step changes what at most one call owns, and the file system only at
\* the output path of a call whose engine writes
C22_NoSharedState ==
    /\ \A c, d \in CallIds :
          (c # d /\ C22_Own(c)' # C22_Own(c)) => C22_Own(d)' = C22_Own(d)
    /\ \A p \in Paths :
          fs'[p] # fs[p] =>
              \E c \in CallIds : /\ outputFile[c] = Str(p)
                                 /\ ~written[c] /\ written'[c]
\* the job of call c is built from the arguments of call c
C22_OwnJob(c) ==
    pc[c] = "submitted" =>
        /\ command[c].inputs = inputFiles[c].a
        /\ command[c].output = outputFile[c]
        /\ command[c].filters[1].options.n = Len(inputFiles[c].a)
\* call c is where it would be had it run alone: its file check failed or
\* passed by what its inputs referred to before the calls, and it settled by
\* the events of its own engine
C22_AsAlone(c) ==
    /\ pc[c] = "submitted" =>
          \A i \in 1..Len(inputFiles[c].a) :
              C22_Before(inputFiles[c].a[i].s) # "absent"
    /\ pc[c] = "threw" =>
          \E i \in 1..Len(inputFiles[c].a) :
              /\ C22_Before(inputFiles[c].a[i].s) = "absent"
              /\ \A j \in 1..(i - 1) :
                     C22_Before(inputFiles[c].a[j].s) # "absent"
              /\ error[c] = <<"Input file not found:", inputFiles[c].a[i].s>>
              /\ promise[c] = "rejected"
    /\ promise[c] = "resolved" <=>
          (events[c] # <<>> /\ events[c][Len(events[c])] = "end")
    /\ (promise[c] = "rejected" /\ pc[c] = "submitted") <=>
          (events[c] # <<>> /\ events[c][Len(events[c])] = "error")
    /\ (promise[c] = "rejected" /\ pc[c] = "submitted") =>
          error[c] = <<"Failed to merge audio files:">> \o engErr[c]
\* no call reads the path the other call writes
C22_NoCrossing ==
    \A c, d \in CallIds :
        c # d => \A i \in 1..Len(inputFiles[c].a) :
                     inputFiles[c].a[i] # outputFile[d]

(***************************************************************************)
(* C22 (as stated): two concurrent calls with distinct output paths share  *)
(* no state, build each its own job from its own arguments and are each    *)
(* where they would be had they run alone.                                 *)
(***************************************************************************)
C22_AsStated ==
    /\ [][C22_NoSharedState]_vars
    /\ [](outputFile[1] # outputFile[2] =>
             \A c \in CallIds : C22_OwnJob(c) /\ C22_AsAlone(c))

(***************************************************************************)
(* C22 (amended): two concurrent calls share no state and build each its   *)
(* own job from its own arguments; when their output paths are distinct    *)
(* and neither reads the path the other writes, each call is where it      *)
(* would be had it run alone, under every interleaving.                    *)
(***************************************************************************)
C22_IndependentCalls ==
    /\ [][C22_NoSharedState]_vars
    /\ [](\A c \in CallIds : C22_OwnJob(c))
    /\ []((outputFile[1] # outputFile[2] /\ C22_NoCrossing) =>
             \A c \in CallIds : C22_AsAlone(c))

\* both calls read a.mp3: while the engine of call 1 was running, call 2
\* went through its file check, ran its engine and failed; call 1 then
\* resolved
C22_Witness ==
    /\ inputFiles[1] = Arr(<<Str("a.mp3")>>)
    /\ inputFiles[2] = Arr(<<Str("a.mp3")>>)
    /\ promise[1] = "resolved"
    /\ events[1] = <<"start", "progress", "end">>
    /\ promise[2] = "rejected"
    /\ events[2] = <<"start", "error">>
    /\ command[1].output = Str("c.mp3")
    /\ command[2].output = Str("b.mp3")

(***************************************************************************)
(* What the two variants are compared on: call 1 is the canonical merge,   *)
(* call 2 the simpler one.                                                 *)
(***************************************************************************)
\* both variants were given the same request
C24_SameRequest ==
    /\ pc[1] # "idle" /\ pc[2] # "idle"
    /\ inputFiles[1] = inputFiles[2]
    /\ outputFile[1] = outputFile[2]
\* both variants are past their file checks
C24_BothChecked == pc[1] # "access" /\ pc[2] # "access"
\* the engines of both variants have ended, in the same way
C24_SameEnding ==
    /\ eng[1] \in {"exitedClean", "exitedError", "unavailable"}
    /\ eng[2] = eng[1]
    /\ engErr[2] = engErr[1]
\* the terminal event a call's handlers observed
C24_Terminal(c) == events[c][Len(events[c])]
\* the percentages a call reported
C24_Reported(c) == SelectSeq(console[c], LAMBDA e : e.tag = "progress")
\* accepted or rejected alike, same inputs bound, engine run as often, and
\* settled alike on the same engine events
C24_SameBehaviour ==
    /\ C24_BothChecked =>
          /\ pc[1] = pc[2]
          /\ pc[1] = "threw" => error[1] = error[2] /\ promise[2] = "rejected"
          /\ command[1].inputs = command[2].inputs
          /\ command[1].output = command[2].output
          /\ runCount[1] = runCount[2]
    /\ C24_SameEnding =>
          /\ promise[1] = promise[2]
          /\ error[1] = error[2]
          /\ C24_Terminal(1) = C24_Terminal(2)
\* the jobs differ in the loudnorm stage and the encoding options
C24_JobsDiffer ==
    (runCount[1] > 0 /\ runCount[2] > 0) =>
        /\ Len(command[1].filters) = 2 /\ Len(command[2].filters) = 1
        /\ command[2].filters[1].filter = "concat"
        /\ command[2].filters[1].options = command[1].filters[1].options
        /\ command[1].filters[2].filter = "loudnorm"
        /\ command[2].options = SubSeq(command[1].options, 1, 2)
        /\ Len(command[1].options) > 2

(***************************************************************************)
(* C24 (as stated): given the same request and the same engine behaviour,  *)
(* the two variants behave identically except for the job they build:      *)
(* same acceptance or error, same inputs bound, engine run as often, same  *)
(* settlement, and the same progress reported.                             *)
(***************************************************************************)
C24_AsStated ==
    C24_SameRequest =>
        /\ C24_SameBehaviour
        /\ C24_JobsDiffer
        /\ (C24_SameEnding /\ nprog[1] = nprog[2]) =>
               Len(C24_Reported(1)) = Len(C24_Reported(2))

(***************************************************************************)
(* C24 (amended): given the same request and the same engine behaviour,    *)
(* the two variants accept or reject alike with the same error, bind the   *)
(* same inputs in the same order, run the engine as often and settle alike *)
(* on the same terminal event; the simpler variant builds a job without    *)
(* the loudnorm stage and the encoding options, and reports no progress.   *)
(***************************************************************************)
C24_VariantsAgree ==
    C24_SameRequest =>
        /\ C24_SameBehaviour
        /\ C24_JobsDiffer
        /\ C24_Reported(2) = <<>>

\* both variants merged a.mp3 and b.mp3 into c.mp3: each engine reported
\* progress once and ended, both calls resolved, only the canonical one
\* reported a percentage
C24_Witness ==
    /\ inputFiles[1] = Arr(<<Str("a.mp3"), Str("b.mp3")>>)
    /\ inputFiles[2] = inputFiles[1]
    /\ outputFile[1] = Str("c.mp3") /\ outputFile[2] = Str("c.mp3")
    /\ promise[1] = "resolved" /\ promise[2] = "resolved"
    /\ nprog[1] = 1 /\ nprog[2] = 1
    /\ Len(C24_Reported(1)) = 1
    /\ Len(command[2].filters) = 1

====
